---- MODULE Spec2Model ----
(***************************************************************************)
(* ralph-beads: the OpenCode plugin's session controller (stop hook, event *)
(* hook, ralph-beads and ralph-cancel tools), the worker protocol of the   *)
(* building prompt (circuit breaker on failures and rejections), and the   *)
(* ralph-runner.sh cleanup wrapper with its worktree tracker file.         *)
(***************************************************************************)
EXTENDS Integers, FiniteSets, Sequences, TLC

\* JavaScript undefined / an absent optional argument / an absent file.
None == "none"

(***************************************************************************)
(* Bounds of the model.                                                    *)
(***************************************************************************)
\* Largest explicit max_iterations value a caller passes.
MaxIterArg == 2
\* Cap on the number of attempt / rejection comments kept per work unit.
MaxRecords == 3
\* stop invocations of one session suspended at the same time
MaxOverlap == 2

(***************************************************************************)
(* Finite instance: sessions, store objects, paths.                        *)
(***************************************************************************)
SessionIds == {"s1", "s2"}
EpicIds == {"e1", "e2"}
MolIds == {"m1", "m2"}
\* A molecule id the store does not know.
BadMol == "mX"
UnitIds == {"u1", "u2"}
\* The store's priority order of the units of molecule m1 (bd ready order).
UnitOrder == <<"u1", "u2">>
\* Both tracked units are steps of molecule m1 (poured from epic e1).
UnitMol == [u \in UnitIds |-> "m1"]

Tiers == {"trivial", "simple", "standard", "critical"}

\* `../worktree-${molId}` and `molecule/${molId}`
WorktreePathOf(m) == <<"../worktree-", m>>
BranchNameOf(m) == <<"molecule/", m>>
\* The path and branch the verify-safety.sh mock uses.
TestPath == <<"../worktree-", "test">>
TestBranch == <<"feature/", "test">>
NoPath == <<None, None>>
MolPaths == {WorktreePathOf(m) : m \in MolIds}
Paths == MolPaths \cup {TestPath}

VARIABLES
    sessions,     \* the module-level Map<string, SessionState>
    lastStop,     \* per session: how the last stop hook invocation returned
    stopLog,      \* per session: what that invocation queried and injected
    lastCall,     \* per session: the ralph-beads arguments its state was set from
    pausedAt,     \* per session: what its state held when ralph-cancel deleted it
    epics,        \* epics existing in the store
    epicMode,     \* bd set-state <epic> mode=...
    cancelled,    \* epics carrying a [CANCELLED] comment
    mols,         \* molecules existing in the store
    molProto,     \* molecule -> epic it was poured from
    status,       \* work unit -> open | in_progress | blocked | closed
    attempts,     \* work unit -> number of "[ATTEMPT:" comments
    rejections,   \* work unit -> number of "[VALIDATION REJECTED]" comments
    breakerNotes, \* work units carrying a "[CIRCUIT BREAKER]" comment
    unblocked,    \* work unit -> an external actor has reset it to open
    validated,    \* work units whose validation phase ended APPROVED
    review,       \* per session: what its worker last handed to a blind reviewer
    wpos,         \* per session: the worker's position in the building prompt
    dirs,         \* worktree directories existing on disk
    branches,     \* git branches existing
    pushed,       \* branches pushed to origin
    prs,          \* branches with a pull request
    tracker,      \* content of .ralph-worktree-tracker (NoPath: no file)
    runner,       \* ralph-runner.sh: idle | running | exited | killed
    child,        \* what CLAUDE_BIN runs: none | mock | mockdone | host
    sigPending,   \* INT/TERM received while the foreground child runs
    named,        \* path the tracker named when the runner got its signal
    created,      \* per session: worktrees its ralph-beads calls created
    ended,        \* per session that created a worktree: how its run ended
    inflight,     \* per session: stop invocations suspended at their ready query
    project,      \* build files present in the project directory
    rustCli,      \* ralph-beads-cli: down (not installed) | failing (its commands exit non-zero)
    testCmd       \* per session: test command carried by the last prompt returned

storeVars == <<epics, epicMode, cancelled, mols, molProto>>
unitVars == <<status, attempts, rejections, breakerNotes, unblocked, validated,
              review>>
gitVars == <<dirs, branches, pushed, prs>>
runnerVars == <<tracker, runner, child, sigPending, named>>
obsVars == <<lastStop, stopLog, lastCall, pausedAt, created, ended>>
fwVars == <<project, rustCli, testCmd>>
vars == <<sessions, storeVars, unitVars, wpos, gitVars, runnerVars, obsVars, inflight,
          fwVars>>

(***************************************************************************)
(* Session State Store.                                                    *)
(***************************************************************************)
NoState == [present |-> FALSE]

\* The object getState creates for an unknown session id.
FreshState ==
    [present |-> TRUE,
     mode |-> None, epicId |-> None, moleculeId |-> None, complexity |-> None,
     maxIterations |-> 0, iterationCount |-> 0, failureCount |-> 0,
     promiseMade |-> None,
     filesModified |-> <<>>, commitMade |-> FALSE,
     worktreePath |-> NoPath, branchName |-> NoPath, createPr |-> FALSE]

\* A getState that hands out a new state object on every call.
getStateAlwaysFresh(s) == FreshState

\* getState(sessionId): the stored state, created on first use.
getState(s) == IF sessions[s].present THEN sessions[s] ELSE FreshState

\* A deleteState that clears the whole map.
deleteStateAll(s) == [x \in SessionIds |-> NoState]

\* deleteState(sessionId)
deleteState(s) == [sessions EXCEPT ![s] = NoState]

\* After deleteState the stop invocations of s that are suspended at an await
\* hold an object the map no longer has: what they write is not seen again.
detach(s) == [inflight EXCEPT ![s] = <<>>]

\* How the run of session s ended, recorded for a started session that
\* created a worktree ("no": the run goes on).
endedAs(s, how) ==
    [ended EXCEPT ![s] = IF sessions[s].present /\ sessions[s].mode # None
                            /\ created[s] # {}
                         THEN how ELSE @]

\* lastStop holds the outcome of a stop hook until the session's next
\* hook or tool invocation.
forgetStop(s) == [lastStop EXCEPT ![s] = None]

\* The session was not paused by ralph-cancel while working on an epic.
NoPause == [epicId |-> None, iterationCount |-> 0, complexity |-> None]

\* What ralph-cancel's deleteState discards when it pauses epic e from a
\* session that is working on e: the iteration count and the tier.
pausedView(s, e) ==
    LET st == getState(s) IN
    IF st.mode \in {"planning", "building"} /\ st.epicId = e
    THEN [epicId |-> e, iterationCount |-> st.iterationCount,
          complexity |-> st.complexity]
    ELSE NoPause

\* No ralph-beads call has set the session's state.
NoCall == [called |-> FALSE]

\* What a stop hook invocation did besides returning: the outcome of its
\* ready query ("none": no query was made), the number of prompts it
\* injected with client.session.prompt, and the task its prompt names.
NoLog == [query |-> "none", prompts |-> 0, unit |-> None]
forgetLog(s) == [stopLog EXCEPT ![s] = NoLog]
logStop(s, q, n, u) == [stopLog EXCEPT ![s] = [query |-> q, prompts |-> n, unit |-> u]]

(***************************************************************************)
(* Complexity classifier and iteration budget (TypeScript fallback).       *)
(***************************************************************************)
\* A task description, abstracted to the set of pattern classes its
\* lower-cased text matches: "crit" (auth|security|payment|...), "triv"
\* (fix\s+typo|update\s+comment|rename|...), "simp" (add\s+(button|...)|...).
TaskFeatures == {"crit", "triv", "simp"}
Tasks == SUBSET TaskFeatures

\* fallback.detectComplexity(task)
detectComplexity(task) ==
    IF "crit" \in task THEN "critical"
    ELSE IF "triv" \in task THEN "trivial"
    ELSE IF "simp" \in task THEN "simple"
    ELSE "standard"

\* fallback.calcIterations(mode, complexity)
calcIterations(mode, complexity) ==
    LET isPlan == (mode = "planning") IN
    CASE complexity = "trivial" -> IF isPlan THEN 2 ELSE 5
      [] complexity = "simple" -> IF isPlan THEN 3 ELSE 10
      [] complexity = "critical" -> IF isPlan THEN 8 ELSE 40
      [] OTHER -> IF isPlan THEN 5 ELSE 20

(***************************************************************************)
(* The dependency store as the plugin and the prompts use it.              *)
(***************************************************************************)
\* Statuses `bd ready` returns: blocked and closed units are filtered out; a
\* claimed unit that failed or was rejected stays in_progress and is retried.
ReadyStatuses == {"open", "in_progress"}

\* bd --no-daemon ready --mol <m> --json, in the store's priority order.
ReadyList(m) ==
    SelectSeq(UnitOrder, LAMBDA u : UnitMol[u] = m /\ status[u] \in ReadyStatuses)

\* A ready query that returns the last ready unit instead of the first.
readyLast(m, storeUp) ==
    IF storeUp /\ m \in mols /\ ReadyList(m) # <<>>
    THEN <<ReadyList(m)[Len(ReadyList(m))]>>
    ELSE <<>>

\* BeadsClient.ready({mol, limit: 1}): parseJson turns a failed query into {}.
ready(m, storeUp) ==
    IF storeUp /\ m \in mols /\ ReadyList(m) # <<>>
    THEN <<Head(ReadyList(m))>>
    ELSE <<>>

(***************************************************************************)
(* Hooks.                                                                  *)
(***************************************************************************)
\* event: session.created
SessionCreated(s) ==
    /\ sessions' = [sessions EXCEPT ![s] = getState(s)]
    /\ lastStop' = forgetStop(s)
    /\ stopLog' = forgetLog(s)
    /\ UNCHANGED <<storeVars, unitVars, wpos, gitVars, runnerVars, fwVars, inflight, lastCall, pausedAt, created, ended>>

\* event: session.deleted
SessionDeleted(s) ==
    /\ sessions' = deleteState(s)
    /\ lastCall' = [lastCall EXCEPT ![s] = NoCall]
    /\ pausedAt' = [pausedAt EXCEPT ![s] = NoPause]
    /\ ended' = endedAs(s, "deleted")
    /\ lastStop' = forgetStop(s)
    /\ stopLog' = forgetLog(s)
    /\ inflight' = detach(s)
    /\ UNCHANGED <<storeVars, unitVars, wpos, gitVars, runnerVars, fwVars, created>>

\* The promise an assistant message leaves in state.promiseMade: the DONE test
\* runs first, the PLAN_READY test second and overwrites it.
promiseAfter(old, hasDone, hasPlanReady) ==
    IF hasPlanReady THEN "PLAN_READY"
    ELSE IF hasDone THEN "DONE"
    ELSE old

\* event: message.updated / message.created with assistant text
MessageEvent(s, hasDone, hasPlanReady) ==
    /\ sessions' = [sessions EXCEPT ![s] =
           [getState(s) EXCEPT !.promiseMade = promiseAfter(@, hasDone, hasPlanReady)]]
    /\ lastStop' = forgetStop(s)
    /\ stopLog' = forgetLog(s)
    /\ UNCHANGED <<storeVars, unitVars, wpos, gitVars, runnerVars, fwVars, inflight, lastCall, pausedAt, created, ended>>

\* The files and tools a tool.execute.after hook reports.
FilePaths == {"f1"}
ToolUses == {[tool |-> "edit", path |-> f, commit |-> FALSE] : f \in FilePaths}
            \cup {[tool |-> "bash", path |-> None, commit |-> c] : c \in BOOLEAN}

\* tool.execute.after: state.filesModified.push(path) unless included
filesAfter(files, path) ==
    IF \E i \in 1..Len(files) : files[i] = path THEN files ELSE Append(files, path)

\* tool.execute.after
ToolAfter(s, use) ==
    /\ sessions' = [sessions EXCEPT ![s] =
           IF use.tool = "edit"
           THEN [getState(s) EXCEPT !.filesModified = filesAfter(@, use.path)]
           ELSE [getState(s) EXCEPT !.commitMade = @ \/ use.commit]]
    /\ lastStop' = forgetStop(s)
    /\ stopLog' = forgetLog(s)
    /\ UNCHANGED <<storeVars, unitVars, wpos, gitVars, runnerVars, fwVars, inflight, lastCall, pausedAt, created, ended>>

\* stop: the mode guard
stopInactive(st) == st.mode = None \/ st.mode = "paused" \/ st.mode = "complete"

\* stop: the iteration budget check
stopBudget(st) == st.maxIterations # 0 /\ st.iterationCount >= st.maxIterations

\* A completion test that accepts any observed signal.
stopCompleteAnySignal(st) ==
    (st.mode = "planning" \/ st.mode = "building") /\ st.promiseMade # None

\* stop: the completion test
stopComplete(st) ==
    \/ (st.mode = "planning" /\ st.promiseMade = "PLAN_READY")
    \/ (st.mode = "building" /\ st.promiseMade = "DONE")

\* Variant of releaseDirs: the worktree is removed only after a successful
\* push and pull request.
releaseDirsIfFinalized(ds, p, finalized) == IF finalized THEN ds \ {p} ELSE ds

\* stop, completion: `git worktree remove --force` runs after the push / PR
\* block whatever that block did (its commands are nothrow and its
\* exceptions are caught).
releaseDirs(ds, p, finalized) == ds \ {p}

\* The task a continuation prompt names: ready[0]
nextTask(rd) == Head(rd)

\* stop hook. storeUp: the ready query succeeds; remoteUp: git push and
\* gh pr create succeed. client.session.prompt delivers the prompt.
stop(s, storeUp, remoteUp) ==
    LET st == getState(s)
        asks == st.mode = "building" /\ st.moleculeId # None
        rd == IF asks THEN ready(st.moleculeId, storeUp) ELSE <<>>
    IN
    /\ UNCHANGED <<storeVars, unitVars, wpos, runnerVars, fwVars, inflight, lastCall, pausedAt, created>>
    /\ IF stopInactive(st) THEN
           /\ sessions' = [sessions EXCEPT ![s] = st]
           /\ lastStop' = [lastStop EXCEPT ![s] = "halt_inactive"]
           /\ stopLog' = logStop(s, "none", 0, None)
           /\ UNCHANGED <<gitVars, ended>>
       ELSE IF stopBudget(st) THEN
           /\ sessions' = [sessions EXCEPT ![s] = st]
           /\ lastStop' = [lastStop EXCEPT ![s] = "halt_budget"]
           /\ stopLog' = logStop(s, "none", 0, None)
           /\ ended' = endedAs(s, "budget")
           /\ UNCHANGED gitVars
       ELSE IF stopComplete(st) THEN
           /\ sessions' = [sessions EXCEPT ![s] = st]
           /\ lastStop' = [lastStop EXCEPT ![s] = "halt_complete"]
           /\ ended' = endedAs(s, "complete")
           /\ IF st.worktreePath # NoPath THEN
                  LET publish == st.createPr /\ st.branchName # NoPath
                                   /\ st.epicId # None /\ remoteUp
                                   /\ st.branchName \in branches
                  IN
                  /\ pushed' = IF publish THEN pushed \cup {st.branchName} ELSE pushed
                  /\ prs' = IF publish THEN prs \cup {st.branchName} ELSE prs
                  /\ dirs' = releaseDirs(dirs, st.worktreePath, publish)
                  \* the "Worktree ... cleaned up" notice
                  /\ stopLog' = logStop(s, "none", 1, None)
                  /\ UNCHANGED branches
              ELSE /\ stopLog' = logStop(s, "none", 0, None)
                   /\ UNCHANGED gitVars
       ELSE IF asks /\ rd # <<>> THEN
           /\ sessions' = [sessions EXCEPT ![s] =
                  [st EXCEPT !.iterationCount = @ + 1]]
           /\ lastStop' = [lastStop EXCEPT ![s] = "continue"]
           /\ stopLog' = logStop(s, "found", 1, nextTask(rd))
           /\ UNCHANGED <<gitVars, ended>>
       ELSE IF st.mode = "planning" THEN
           /\ sessions' = [sessions EXCEPT ![s] =
                  [st EXCEPT !.iterationCount = @ + 1]]
           /\ lastStop' = [lastStop EXCEPT ![s] = "continue"]
           /\ stopLog' = logStop(s, "none", 1, None)
           /\ UNCHANGED <<gitVars, ended>>
       ELSE
           /\ sessions' = [sessions EXCEPT ![s] = st]
           /\ lastStop' = [lastStop EXCEPT ![s] = "halt_idle"]
           /\ stopLog' = logStop(s, IF ~asks THEN "none"
                                    ELSE IF storeUp THEN "empty" ELSE "failed",
                                 0, None)
           /\ UNCHANGED <<gitVars, ended>>

\* stop reaches `await beads.ready(...)`: it has passed the mode guard, the
\* budget check and the completion test in building mode with a molecule.
stopSuspends(st) ==
    /\ ~stopInactive(st) /\ ~stopBudget(st) /\ ~stopComplete(st)
    /\ st.mode = "building" /\ st.moleculeId # None

\* stop, up to its first suspension point: an invocation that reaches the
\* ready query is suspended there and the event loop is free to run another
\* hook of the same session; every other path runs as in stop.
StopBegin(s, storeUp, remoteUp) ==
    LET st == getState(s) IN
    IF stopSuspends(st) THEN
        \* bound: at most MaxOverlap invocations are suspended at a time
        /\ Len(inflight[s]) < MaxOverlap
        /\ inflight' = [inflight EXCEPT ![s] = Append(@, st.moleculeId)]
        /\ sessions' = [sessions EXCEPT ![s] = st]
        /\ lastStop' = forgetStop(s)
        /\ stopLog' = forgetLog(s)
        /\ UNCHANGED <<storeVars, unitVars, wpos, gitVars, runnerVars, fwVars, lastCall,
                       pausedAt, created, ended>>
    ELSE stop(s, storeUp, remoteUp)

\* stop, from the answer of the ready query on: the i-th suspended
\* invocation of s resumes, increments state.iterationCount and prompts
\* when work is ready, and otherwise falls through to the planning test.
StopResume(s, i, storeUp) ==
    /\ i \in 1..Len(inflight[s])
    /\ sessions[s].present
    /\ LET st == sessions[s]
           rd == ready(inflight[s][i], storeUp)
       IN
       IF rd # <<>> THEN
           /\ sessions' = [sessions EXCEPT ![s] =
                  [st EXCEPT !.iterationCount = @ + 1]]
           /\ lastStop' = [lastStop EXCEPT ![s] = "continue"]
           /\ stopLog' = logStop(s, "found", 1, nextTask(rd))
       ELSE IF st.mode = "planning" THEN
           /\ sessions' = [sessions EXCEPT ![s] =
                  [st EXCEPT !.iterationCount = @ + 1]]
           /\ lastStop' = [lastStop EXCEPT ![s] = "continue"]
           /\ stopLog' = logStop(s, IF storeUp THEN "empty" ELSE "failed", 1, None)
       ELSE
           /\ sessions' = sessions
           /\ lastStop' = [lastStop EXCEPT ![s] = "halt_idle"]
           /\ stopLog' = logStop(s, IF storeUp THEN "empty" ELSE "failed", 0, None)
    /\ inflight' = [inflight EXCEPT ![s] =
           SubSeq(@, 1, i - 1) \o SubSeq(@, i + 1, Len(@))]
    /\ UNCHANGED <<storeVars, unitVars, wpos, gitVars, runnerVars, fwVars, lastCall,
                   pausedAt, created, ended>>

(***************************************************************************)
(* Tools.                                                                  *)
(***************************************************************************)
\* The id the store gives the next epic / molecule it creates.
Exhausted == "exhausted"
FreshEpic == IF epics = EpicIds THEN Exhausted ELSE CHOOSE e \in EpicIds \ epics : TRUE
FreshMol == IF mols = MolIds THEN Exhausted ELSE CHOOSE m \in MolIds \ mols : TRUE

\* ralph-beads.execute, mode / epic / molecule resolution. The result says
\* how this part ends ("ok", "error": an ERROR string is returned, "throw":
\* an awaited store command rejects) and what it did to the store.
resolveStart(a, storeUp) ==
    LET mode1 == IF a.resume # None THEN "building"
                 ELSE IF a.mode = None THEN "build" ELSE a.mode
        mol1 == IF a.resume # None THEN a.resume ELSE a.mol
        none == [newEpic |-> None, newMol |-> None, setMode |-> None]
    IN
    IF mode1 = "building" THEN
        IF mol1 # None THEN
            \* molShow goes through parseJson: a failure yields {} and no epic
            IF storeUp /\ mol1 \in mols
            THEN none @@ [outcome |-> "ok", mode |-> "building",
                          epicId |-> molProto[mol1], molId |-> mol1]
            ELSE none @@ [outcome |-> "error", mode |-> mode1,
                          epicId |-> None, molId |-> mol1]
        ELSE IF a.epic # None THEN
            IF storeUp /\ a.epic \in epics
            THEN [outcome |-> "ok", mode |-> "building", epicId |-> a.epic,
                  molId |-> FreshMol, newEpic |-> None, newMol |-> FreshMol,
                  setMode |-> None]
            ELSE none @@ [outcome |-> "error", mode |-> mode1,
                          epicId |-> a.epic, molId |-> None]
        ELSE
            IF storeUp
            THEN [outcome |-> "ok", mode |-> "building", epicId |-> FreshEpic,
                  molId |-> FreshMol, newEpic |-> FreshEpic, newMol |-> FreshMol,
                  setMode |-> "building"]
            ELSE none @@ [outcome |-> "throw", mode |-> mode1,
                          epicId |-> None, molId |-> None]
    ELSE
        IF a.epic = None THEN
            IF storeUp
            THEN [outcome |-> "ok", mode |-> mode1, epicId |-> FreshEpic,
                  molId |-> mol1, newEpic |-> FreshEpic, newMol |-> None,
                  setMode |-> "planning"]
            ELSE none @@ [outcome |-> "throw", mode |-> mode1,
                          epicId |-> None, molId |-> mol1]
        ELSE
            IF storeUp /\ a.epic \in epics
            THEN [outcome |-> "ok", mode |-> mode1, epicId |-> a.epic,
                  molId |-> mol1, newEpic |-> None, newMol |-> None,
                  setMode |-> "planning"]
            ELSE none @@ [outcome |-> "throw", mode |-> mode1,
                          epicId |-> a.epic, molId |-> mol1]

\* Variant of startComplexity: the description is always classified.
startComplexityDetected(a) == detectComplexity(a.task)

\* ralph-beads.execute: complexity (explicit override, else classification)
startComplexity(a) ==
    IF a.complexity # None THEN a.complexity ELSE detectComplexity(a.task)

\* ralph-beads.execute: maxIter (explicit value unless falsy, else the table)
startMaxIter(a, mode) ==
    IF a.max_iterations # 0 THEN a.max_iterations
    ELSE calcIterations(mode, startComplexity(a))

\* ralph-beads.execute: the fields written into the session state before the
\* worktree setup.
startState(st, a, r) ==
    [st EXCEPT !.mode = r.mode, !.epicId = r.epicId, !.moleculeId = r.molId,
               !.complexity = startComplexity(a),
               !.maxIterations = startMaxIter(a, r.mode),
               !.iterationCount = 0, !.failureCount = 0,
               !.promiseMade = None]

\* ralph-beads.execute: the lease fields written after `git worktree add`.
leaseState(st, m, pr) ==
    [st EXCEPT !.worktreePath = WorktreePathOf(m),
               !.branchName = BranchNameOf(m),
               !.createPr = pr]

\* The worker of session s receives the building prompt for molecule m.
promptWorker(s, m) ==
    [wpos EXCEPT ![s] = [pc |-> "idle", mol |-> m, unit |-> None, seen |-> 0]]

\* Variant of worktreeConflict: an existing path is not noticed.
worktreeConflictIgnored(m) == FALSE

\* ralph-beads.execute: `git worktree add` refuses a path that exists.
worktreeConflict(m) == WorktreePathOf(m) \in dirs

\* The build files the fallback looks for.
ProjectFiles == {"Cargo.toml", "package.json", "pyproject.toml", "setup.py"}

NoFramework == [framework |-> "", test_command |-> ""]

\* ralph-beads.execute, catch branch of the framework detection: fileExists
\* checks in order.
fileChecks(files) ==
    IF "Cargo.toml" \in files
    THEN [framework |-> "rust", test_command |-> "cargo test"]
    ELSE IF "package.json" \in files
    THEN [framework |-> "node", test_command |-> "npm test"]
    ELSE IF "pyproject.toml" \in files \/ "setup.py" \in files
    THEN [framework |-> "python", test_command |-> "pytest"]
    ELSE NoFramework

\* createClient(...).detectFramework when isAvailable() is false: a constant
\* answer, returned without an exception.
stubFramework ==
    [framework |-> "none", test_command |-> "echo \"Rust CLI not available\""]

\* ralph-beads.execute: framework and testCmd. With the CLI missing the
\* client's stub answers and nothing is thrown; the file checks run only when
\* the CLI is there and its detect-framework command fails.
detectFramework(cli, files) ==
    IF cli = "down" THEN stubFramework ELSE fileChecks(files)

\* ralph-beads.execute ends with an ERROR result or an exception.
startFails(a, storeUp) ==
    LET r == resolveStart(a, storeUp) IN
    \/ r.outcome # "ok"
    \/ /\ ~a.dry_run /\ (a.worktree \/ a.pr)
       /\ (r.mode # "building" \/ r.molId = None \/ worktreeConflict(r.molId))

\* ralph-beads tool.
RalphBeads(s, a, storeUp) ==
    LET r == resolveStart(a, storeUp)
        st == startState(getState(s), a, r)
    IN
    \* bound: the store hands out fresh ids from a finite pool
    /\ r.newEpic # Exhausted
    /\ r.newMol # Exhausted
    /\ epics' = IF r.newEpic # None THEN epics \cup {r.newEpic} ELSE epics
    /\ epicMode' = IF r.setMode # None
                   THEN [epicMode EXCEPT ![r.epicId] = r.setMode] ELSE epicMode
    /\ mols' = IF r.newMol # None THEN mols \cup {r.newMol} ELSE mols
    /\ molProto' = IF r.newMol # None
                   THEN [molProto EXCEPT ![r.newMol] = r.epicId] ELSE molProto
    /\ lastStop' = forgetStop(s)
    /\ stopLog' = forgetLog(s)
    /\ UNCHANGED <<cancelled, unitVars, runnerVars, project, rustCli, inflight, pushed, prs>>
    /\ lastCall' = IF r.outcome # "ok" \/ a.dry_run THEN lastCall
                   ELSE [lastCall EXCEPT ![s] = a]
    \* a pause is on record until the session, or any session for the paused
    \* epic, is started again
    /\ pausedAt' = IF r.outcome # "ok" \/ a.dry_run THEN pausedAt
                   ELSE [x \in SessionIds |->
                            IF x = s \/ pausedAt[x].epicId = r.epicId
                            THEN NoPause ELSE pausedAt[x]]
    \* getBuildingPrompt(epicId, molId, task, testCmd); the planning prompt
    \* carries no test command
    /\ testCmd' = IF r.outcome # "ok" \/ a.dry_run
                     \/ ((a.worktree \/ a.pr) /\ startFails(a, storeUp))
                  THEN testCmd
                  ELSE [testCmd EXCEPT ![s] =
                           IF r.mode = "planning" THEN None
                           ELSE detectFramework(rustCli, project).test_command]
    /\ IF r.outcome # "ok" \/ a.dry_run THEN
           UNCHANGED <<sessions, wpos, dirs, branches, created, ended>>
       ELSE IF a.worktree \/ a.pr THEN
           IF r.mode # "building" \/ r.molId = None THEN
               \* "ERROR: Worktree requires building mode and a molecule."
               /\ sessions' = [sessions EXCEPT ![s] = st]
               /\ ended' = [ended EXCEPT ![s] = "no"]
               /\ UNCHANGED <<wpos, dirs, branches, created>>
           ELSE IF worktreeConflict(r.molId) THEN
               \* git worktree add fails: execute throws after the state reset
               /\ sessions' = [sessions EXCEPT ![s] = st]
               /\ ended' = [ended EXCEPT ![s] = "no"]
               /\ UNCHANGED <<wpos, dirs, branches, created>>
           ELSE
               /\ dirs' = dirs \cup {WorktreePathOf(r.molId)}
               /\ branches' = branches \cup {BranchNameOf(r.molId)}
               /\ sessions' = [sessions EXCEPT ![s] = leaseState(st, r.molId, a.pr)]
               /\ created' = [created EXCEPT ![s] = @ \cup {WorktreePathOf(r.molId)}]
               /\ ended' = [ended EXCEPT ![s] = "no"]
               /\ wpos' = promptWorker(s, r.molId)
       ELSE
           /\ sessions' = [sessions EXCEPT ![s] = st]
           /\ ended' = [ended EXCEPT ![s] = "no"]
           /\ wpos' = promptWorker(s, IF r.mode = "planning" THEN None ELSE r.molId)
           /\ UNCHANGED <<dirs, branches, created>>

\* ralph-beads.execute, environment check: `try { await beads.info() }
\* catch { return "ERROR: Beads not initialized..." }`. info() goes through
\* parseJson, which catches a failed or unparsable `bd info` and returns {},
\* so the await never rejects and the check passes whatever bd info did.
infoCheck(infoUp) == "ok"

\* ralph-beads tool with the outcome of `bd info` as an input (RalphBeads is
\* what execute does once the check has passed).
RalphBeadsInfo(s, a, infoUp, storeUp) ==
    IF infoCheck(infoUp) = "ok"
    THEN RalphBeads(s, a, storeUp)
    ELSE \* "ERROR: Beads not initialized. Run 'bd init' first."
         /\ lastStop' = forgetStop(s)
         /\ stopLog' = forgetLog(s)
         /\ UNCHANGED <<sessions, storeVars, unitVars, wpos, gitVars, runnerVars, fwVars, inflight,
                        lastCall, pausedAt, created, ended>>

\* ralph-cancel.execute: the epic the call is about. a.epic: the epic
\* argument; a.listed: the first in-progress ralph-labelled epic the store
\* lists (None: an empty list).
cancelTarget(st, a) ==
    IF a.epic # None THEN a.epic
    ELSE IF a.listed # None THEN a.listed
    ELSE st.epicId

\* Variant of setPaused: the epic's mode is set to complete.
setPausedAsComplete(em, e) == [em EXCEPT ![e] = "complete"]

\* ralph-cancel.execute: beads.setState(epicId, 'mode', 'paused')
setPaused(em, e) == [em EXCEPT ![e] = "paused"]

\* ralph-cancel tool.
RalphCancel(s, a, storeUp) ==
    LET st == getState(s)
        epicId == cancelTarget(st, a)
    IN
    /\ lastStop' = forgetStop(s)
    /\ stopLog' = forgetLog(s)
    /\ UNCHANGED <<epics, mols, molProto, unitVars, wpos, gitVars, runnerVars, fwVars,
                   created>>
    /\ inflight' = IF (a.epic # None \/ storeUp) /\ epicId # None
                      /\ storeUp /\ epicId \in epics
                   THEN detach(s) ELSE inflight
    /\ IF a.epic = None /\ ~storeUp THEN
           \* the list query fails: parseJson yields {} and epics.sort throws
           UNCHANGED <<sessions, epicMode, cancelled, ended, lastCall, pausedAt>>
       ELSE IF epicId = None THEN
           \* "No active Ralph-Beads epic found." (getState created the state)
           /\ sessions' = [sessions EXCEPT ![s] = st]
           /\ UNCHANGED <<epicMode, cancelled, ended, lastCall, pausedAt>>
       ELSE IF ~storeUp \/ epicId \notin epics THEN
           \* "Epic ... not found."
           /\ sessions' = IF a.epic = None /\ a.listed = None
                          THEN [sessions EXCEPT ![s] = st] ELSE sessions
           /\ UNCHANGED <<epicMode, cancelled, ended, lastCall, pausedAt>>
       ELSE
           /\ epicMode' = setPaused(epicMode, epicId)
           /\ cancelled' = cancelled \cup {epicId}
           /\ sessions' = deleteState(s)
           /\ lastCall' = [lastCall EXCEPT ![s] = NoCall]
           /\ pausedAt' = [pausedAt EXCEPT ![s] = pausedView(s, epicId)]
           /\ ended' = endedAs(s, "cancel")

(***************************************************************************)
(* The worker following the building prompt (one iteration = one unit).    *)
(***************************************************************************)
NoWorker == [pc |-> "idle", mol |-> None, unit |-> None, seen |-> 0]

\* Startup ritual steps 2-5 and "Detecting previous failures": take the
\* single next ready unit, count its "[ATTEMPT:" comments, claim it.
WorkerPick(s) ==
    LET w == wpos[s] IN
    /\ w.pc = "idle"
    /\ w.mol \in mols
    /\ ReadyList(w.mol) # <<>>
    /\ LET u == Head(ReadyList(w.mol)) IN
       /\ status' = [status EXCEPT ![u] = "in_progress"]
       /\ wpos' = [wpos EXCEPT ![s] =
              [pc |-> "working", mol |-> w.mol, unit |-> u, seen |-> attempts[u]]]
       \* an earlier iteration's review does not cover this iteration's diff
       /\ validated' = validated \ {u}
    /\ UNCHANGED <<sessions, storeVars, attempts, rejections, breakerNotes,
                   unblocked, review, gitVars, runnerVars, fwVars, inflight, obsVars>>

\* Whether a failure is handled as the "second failure attempt": the count
\* of previous attempts taken at iteration start is at least 1.
isSecondFailure(seen) == seen >= 1

\* Circuit Breaker: log the failed attempt. A first failure only logs
\* "[ATTEMPT:1]"; a later one logs "[ATTEMPT:2] ... CIRCUIT BREAKER
\* TRIGGERED." and goes on to `bd update --status=blocked`.
WorkerFail(s) ==
    LET w == wpos[s] IN
    /\ w.pc = "working"
    /\ attempts[w.unit] < MaxRecords
    /\ attempts' = [attempts EXCEPT ![w.unit] = @ + 1]
    /\ wpos' = [wpos EXCEPT ![s] =
           IF isSecondFailure(w.seen) THEN [w EXCEPT !.pc = "blocking"]
           ELSE [w EXCEPT !.pc = "idle", !.unit = None, !.seen = 0]]
    /\ UNCHANGED <<sessions, storeVars, status, rejections, breakerNotes,
                   unblocked, validated, review, gitVars, runnerVars, fwVars, inflight, obsVars>>

\* Circuit Breaker: bd update $NEXT_TASK --status=blocked
WorkerBlock(s) ==
    LET w == wpos[s] IN
    /\ w.pc = "blocking"
    /\ status' = [status EXCEPT ![w.unit] = "blocked"]
    /\ wpos' = [wpos EXCEPT ![s] = [w EXCEPT !.pc = "idle", !.unit = None, !.seen = 0]]
    /\ UNCHANGED <<sessions, storeVars, attempts, rejections, breakerNotes,
                   unblocked, validated, review, gitVars, runnerVars, fwVars, inflight, obsVars>>

\* What a worker knows when it reaches the validation phase of unit u: the
\* unit's description, the repository's style guide file (None: there is
\* none), the diff of its last commit, its own reasoning, the attempt and
\* rejection comments on the unit, and the plan (the epic) the unit is from.
Guides == {None, "g1"}
Diffs == {"d1", "d2"}
Reasonings == {"r1", "r2"}
reviewContext(u, g, d, r) ==
    [criteria |-> u, guide |-> g, diff |-> d, reasoning |-> r,
     comments |-> attempts[u] + rejections[u], plan |-> molProto[UnitMol[u]]]

\* Variant of reviewerPrompt: the comments on the unit are passed along.
reviewerPromptWithComments(ctx) ==
    [criteria |-> <<ctx.criteria, ctx.comments>>, guide |-> ctx.guide,
     diff |-> ctx.diff]

\* Validation Phase steps 1-3: the prompt of the blind reviewer is built
\* from $CRITERIA (the unit's description), $STYLE_GUIDE and $DIFF.
reviewerPrompt(ctx) ==
    [criteria |-> <<ctx.criteria>>, guide |-> ctx.guide, diff |-> ctx.diff]

\* No reviewer has been spawned.
NoReview == [spawned |-> FALSE]

\* Validation Phase step 3: spawn the blind reviewer. (A specification that
\* does not look at the reviewer's input lets the verdict follow step 6
\* directly.)
SpawnReviewer(s, g, d, r) ==
    LET w == wpos[s]
        ctx == reviewContext(w.unit, g, d, r)
    IN
    /\ w.pc = "working"
    /\ review' = [review EXCEPT ![s] =
           [spawned |-> TRUE, ctx |-> ctx, input |-> reviewerPrompt(ctx)]]
    /\ wpos' = [wpos EXCEPT ![s] = [w EXCEPT !.pc = "reviewing"]]
    /\ UNCHANGED <<sessions, storeVars, status, attempts, rejections,
                   breakerNotes, unblocked, validated, gitVars, runnerVars, fwVars, inflight, obsVars>>

\* Variant of afterVerdict: every verdict is handled as APPROVED.
afterVerdictAlwaysApproved(w, verdict) == [w EXCEPT !.pc = "approved"]

\* Validation Phase step 4, "Handle result": APPROVED goes on to close the
\* task, REJECTED goes on to the rejection log and the circuit breaker.
afterVerdict(w, verdict) ==
    [w EXCEPT !.pc = IF verdict = "APPROVED" THEN "approved" ELSE "rejected"]

\* Validation Phase, REJECTED: bd comments add "[VALIDATION REJECTED] ..."
WorkerReject(s) ==
    LET w == wpos[s] IN
    /\ w.pc \in {"working", "reviewing"}
    /\ rejections[w.unit] < MaxRecords
    /\ rejections' = [rejections EXCEPT ![w.unit] = @ + 1]
    /\ wpos' = [wpos EXCEPT ![s] = afterVerdict(w, "REJECTED")]
    /\ UNCHANGED <<sessions, storeVars, status, attempts, breakerNotes,
                   unblocked, validated, review, gitVars, runnerVars, fwVars, inflight, obsVars>>

\* A rejection breaker that trips on the first rejection.
rejectionTripsOnFirst(n) == n >= 1

\* The rejection circuit breaker test: [ "$REJECTIONS" -ge 2 ]
rejectionTrips(n) == n >= 2

\* Validation Phase, REJECTED: count the rejections, block on the second.
WorkerRejectCheck(s) ==
    LET w == wpos[s] IN
    /\ w.pc = "rejected"
    /\ IF rejectionTrips(rejections[w.unit]) THEN
           /\ status' = [status EXCEPT ![w.unit] = "blocked"]
           /\ breakerNotes' = breakerNotes \cup {w.unit}
       ELSE UNCHANGED <<status, breakerNotes>>
    /\ wpos' = [wpos EXCEPT ![s] = [w EXCEPT !.pc = "idle", !.unit = None, !.seen = 0]]
    /\ UNCHANGED <<sessions, storeVars, attempts, rejections, unblocked,
                   validated, review, gitVars, runnerVars, fwVars, inflight, obsVars>>

\* Validation Phase, APPROVED: the blind reviewer accepts the change. The
\* prompt runs the phase "if enabled" and is the same text for every tier
\* and every validate / skip_validate argument, so the worker may also go
\* from step 6 straight to step 8.
WorkerApprove(s) ==
    LET w == wpos[s] IN
    /\ w.pc \in {"working", "reviewing"}
    /\ validated' = validated \cup {w.unit}
    /\ wpos' = [wpos EXCEPT ![s] = afterVerdict(w, "APPROVED")]
    /\ UNCHANGED <<sessions, storeVars, status, attempts, rejections,
                   breakerNotes, unblocked, review, gitVars, runnerVars, fwVars, inflight, obsVars>>

\* Work Protocol step 8: bd close $NEXT_TASK (after an APPROVED verdict, or
\* straight after step 6 when the validation phase is not run)
WorkerClose(s) ==
    LET w == wpos[s] IN
    /\ w.pc \in {"working", "approved"}
    /\ status' = [status EXCEPT ![w.unit] = "closed"]
    /\ wpos' = [wpos EXCEPT ![s] = [w EXCEPT !.pc = "idle", !.unit = None, !.seen = 0]]
    /\ UNCHANGED <<sessions, storeVars, attempts, rejections, breakerNotes,
                   unblocked, validated, review, gitVars, runnerVars, fwVars, inflight, obsVars>>

\* The run is interrupted in the middle of an iteration (the agent is
\* stopped, the host dies, the context is lost); the next iteration starts
\* from the startup ritual.
WorkerInterrupt(s) ==
    LET w == wpos[s] IN
    /\ w.pc # "idle"
    /\ wpos' = [wpos EXCEPT ![s] = [w EXCEPT !.pc = "idle", !.unit = None, !.seen = 0]]
    /\ UNCHANGED <<sessions, storeVars, unitVars, gitVars, runnerVars, fwVars, inflight, obsVars>>

\* "Unblocking tasks (after manual intervention)": bd update --status=open
Unblock(u) ==
    /\ status[u] = "blocked"
    /\ status' = [status EXCEPT ![u] = "open"]
    /\ unblocked' = [unblocked EXCEPT ![u] = TRUE]
    /\ UNCHANGED <<sessions, storeVars, attempts, rejections, breakerNotes,
                   validated, review, wpos, gitVars, runnerVars, fwVars, inflight, obsVars>>

(***************************************************************************)
(* ralph-runner.sh and the verify-safety.sh mock of the agent.             *)
(***************************************************************************)
\* A cleanup that drops the tracker file and leaves the directory.
cleanupTrackerOnly(fs) ==
    IF fs.tracker # NoPath THEN [tracker |-> NoPath, dirs |-> fs.dirs] ELSE fs

\* cleanup(): what the trap handler does to the tracker file and the
\* worktree directories (git worktree remove --force succeeds on a
\* registered worktree).
cleanup(fs) ==
    IF fs.tracker # NoPath
    THEN [tracker |-> NoPath,
          dirs |-> IF fs.tracker \in fs.dirs THEN fs.dirs \ {fs.tracker} ELSE fs.dirs]
    ELSE fs

\* The runner starts: trap cleanup EXIT INT TERM, rm -f "$TRACKER_FILE",
\* then CLAUDE_BIN is looked up and run in the foreground ("missing": the
\* script exits 1 and the EXIT trap runs).
RunnerStart(c) ==
    /\ runner # "running"
    /\ tracker' = NoPath
    /\ sigPending' = FALSE
    /\ named' = NoPath
    /\ IF c = "missing"
       THEN runner' = "exited" /\ child' = "none"
       ELSE runner' = "running" /\ child' = c
    /\ UNCHANGED <<sessions, storeVars, unitVars, wpos, gitVars, obsVars, inflight, fwVars>>

\* verify-safety.sh mock: git worktree add ../worktree-test -b feature/test
\* (its failure is ignored), then the path is written to the tracker file.
MockClaude ==
    /\ runner = "running" /\ child = "mock"
    /\ IF TestPath \notin dirs /\ TestBranch \notin branches
       THEN /\ dirs' = dirs \cup {TestPath}
            /\ branches' = branches \cup {TestBranch}
       ELSE UNCHANGED <<dirs, branches>>
    /\ tracker' = TestPath
    /\ child' = "mocksleep"
    /\ UNCHANGED <<sessions, storeVars, unitVars, wpos, pushed, prs, runner,
                   sigPending, named, obsVars, inflight, fwVars>>

\* INT or TERM reaches the runner while it waits for its foreground child:
\* bash runs the trap once the child has ended.
RunnerSignal ==
    /\ runner = "running" /\ ~sigPending
    /\ sigPending' = TRUE
    /\ named' = tracker
    /\ UNCHANGED <<sessions, storeVars, unitVars, wpos, gitVars, tracker,
                   runner, child, obsVars, inflight, fwVars>>

\* The sessions of the host process are gone with it.
hostGone(how) ==
    /\ sessions' = [s \in SessionIds |-> NoState]
    /\ wpos' = [s \in SessionIds |-> NoWorker]
    /\ ended' = [s \in SessionIds |-> endedAs(s, how)[s]]
    /\ lastStop' = [s \in SessionIds |-> None]
    /\ stopLog' = [s \in SessionIds |-> NoLog]
    /\ lastCall' = [s \in SessionIds |-> NoCall]
    /\ pausedAt' = [s \in SessionIds |-> NoPause]
    /\ inflight' = [s \in SessionIds |-> <<>>]

\* The child ends and the runner exits: the INT/TERM trap runs cleanup if a
\* signal is pending, then the EXIT trap runs cleanup.
RunnerExit ==
    /\ runner = "running"
    /\ LET fs0 == [tracker |-> tracker, dirs |-> dirs]
           fs1 == IF sigPending THEN cleanup(fs0) ELSE fs0
           fs2 == cleanup(fs1)
       IN /\ tracker' = fs2.tracker
          /\ dirs' = fs2.dirs
    /\ named' = IF sigPending THEN named ELSE tracker
    /\ runner' = "exited"
    /\ child' = "none"
    /\ sigPending' = FALSE
    /\ IF child = "host" THEN hostGone("runner")
       ELSE UNCHANGED <<sessions, wpos, ended, lastStop, stopLog, lastCall, pausedAt,
                        inflight>>
    /\ UNCHANGED <<storeVars, unitVars, branches, pushed, prs, created, fwVars>>

\* SIGKILL: the runner dies without running its traps.
RunnerKill ==
    /\ runner = "running"
    /\ runner' = "killed"
    /\ child' = "none"
    /\ sigPending' = FALSE
    /\ IF child = "host" THEN hostGone("killed")
       ELSE UNCHANGED <<sessions, wpos, ended, lastStop, stopLog, lastCall, pausedAt,
                        inflight>>
    /\ UNCHANGED <<storeVars, unitVars, gitVars, tracker, named, created, fwVars>>

(***************************************************************************)
(* Initial state: a store holding epic e1, planned with two tasks and      *)
(* poured into molecule m1; a fresh host process; no worktree.             *)
(***************************************************************************)
InitCore ==
    /\ sessions = [s \in SessionIds |-> NoState]
    /\ lastStop = [s \in SessionIds |-> None]
    /\ stopLog = [s \in SessionIds |-> NoLog]
    /\ lastCall = [s \in SessionIds |-> NoCall]
    /\ pausedAt = [s \in SessionIds |-> NoPause]
    /\ epics = {"e1"}
    /\ epicMode = [e \in EpicIds |-> IF e = "e1" THEN "ready_for_build" ELSE None]
    /\ cancelled = {}
    /\ mols = {"m1"}
    /\ molProto = [m \in MolIds |-> IF m = "m1" THEN "e1" ELSE None]
    /\ status = [u \in UnitIds |-> "open"]
    /\ attempts = [u \in UnitIds |-> 0]
    /\ rejections = [u \in UnitIds |-> 0]
    /\ breakerNotes = {}
    /\ unblocked = [u \in UnitIds |-> FALSE]
    /\ validated = {}
    /\ review = [s \in SessionIds |-> NoReview]
    /\ wpos = [s \in SessionIds |-> NoWorker]
    /\ dirs = {}
    /\ branches = {}
    /\ pushed = {}
    /\ prs = {}
    /\ tracker = NoPath
    /\ runner = "idle"
    /\ child = "none"
    /\ sigPending = FALSE
    /\ named = NoPath
    /\ created = [s \in SessionIds |-> {}]
    /\ ended = [s \in SessionIds |-> "no"]
    /\ inflight = [s \in SessionIds |-> <<>>]
    /\ testCmd = [s \in SessionIds |-> None]

\* ralph-beads-cli is not installed and the project directory has no build
\* file.
Init ==
    /\ InitCore
    /\ project = {}
    /\ rustCli = "down"

(***************************************************************************)
(* Inputs.                                                                 *)
(***************************************************************************)
NoArgs ==
    [mode |-> None, epic |-> None, mol |-> None, resume |-> None,
     complexity |-> None, task |-> {}, validate |-> FALSE,
     skip_validate |-> FALSE, worktree |-> FALSE, pr |-> FALSE,
     max_iterations |-> 0, max_iterations_set |-> FALSE, dry_run |-> FALSE]

ModeArgs == {None, "plan", "build", "planning", "building"}
\* max_iterations values: absent (0, with max_iterations_set FALSE; the code
\* tests !maxIter and so reads an absent value and a supplied 0 alike), a
\* negative number, 1..MaxIterArg
MaxIterArgs == {0, -1} \cup (1 .. MaxIterArg)

\* What the call is aimed at: nothing, an epic, a molecule, a resume.
NoTarget == [epic |-> None, mol |-> None, resume |-> None]
EpicTarget == [epic |-> "e1", mol |-> None, resume |-> None]
MolTarget == [epic |-> None, mol |-> "m1", resume |-> None]
BadMolTarget == [epic |-> None, mol |-> BadMol, resume |-> None]
ResumeTarget == [epic |-> None, mol |-> None, resume |-> "m1"]

argsOf(m, t, k, n) ==
    [NoArgs EXCEPT !.mode = m, !.epic = t.epic, !.mol = t.mol,
                   !.resume = t.resume, !.task = k, !.max_iterations = n,
                   !.max_iterations_set = (n # 0)]

\* The calls of the controller specification: every mode aimed at the
\* existing epic, the literal mode 'building' aimed at the existing and at
\* an unknown molecule, a resume and a planning call with each explicit
\* ceiling, a resume for a simple task, and two dry runs.
StartArgs ==
    {argsOf(m, EpicTarget, {"triv"}, 0) : m \in ModeArgs}
    \cup
    {argsOf("building", t, {"triv"}, 0) : t \in {MolTarget, BadMolTarget}}
    \cup
    {argsOf(m, t, {"triv"}, n) :
        m \in {None}, t \in {ResumeTarget}, n \in MaxIterArgs}
    \cup
    {argsOf(m, t, {"triv"}, n) :
        m \in {"planning"}, t \in {EpicTarget}, n \in MaxIterArgs}
    \cup
    {argsOf(None, ResumeTarget, {"simp"}, 0)}
    \cup
    \* the mode argument is a free string: a caller may pass 'paused'
    {argsOf("paused", EpicTarget, {"triv"}, 0)}
    \cup
    {[argsOf(m, MolTarget, {}, 0) EXCEPT !.dry_run = TRUE] :
        m \in {None, "building"}}

CancelArgs == [epic : {None, "e1"}, listed : {None, "e1"}]

\* Sessions the controller specification drives.
CoreSessions == {"s1"}

(***************************************************************************)
(* The controller: hooks and tools of one session against the store.       *)
(***************************************************************************)
Next ==
    \E s \in CoreSessions :
        \/ SessionCreated(s)
        \/ SessionDeleted(s)
        \/ \E d, p \in BOOLEAN : MessageEvent(s, d, p)
        \/ \E up, rem \in BOOLEAN : stop(s, up, rem)
        \/ \E a \in StartArgs, up \in BOOLEAN : RalphBeads(s, a, up)
        \/ \E a \in CancelArgs, up \in BOOLEAN : RalphCancel(s, a, up)
        \/ WorkerPick(s)
        \/ WorkerClose(s)

Spec == Init /\ [][Next]_vars

(***************************************************************************)
(* The circuit breaker: two sessions of one host hold the building prompt  *)
(* of molecule m1 (both were started with resume = m1), their workers      *)
(* iterate over its tasks, and a person may unblock a blocked task.        *)
(***************************************************************************)
ResumeArgs == argsOf(None, ResumeTarget, {"triv"}, 0)

InitBreaker ==
    /\ lastStop = [s \in SessionIds |-> None]
    /\ stopLog = [s \in SessionIds |-> NoLog]
    /\ lastCall = [s \in SessionIds |-> ResumeArgs]
    /\ pausedAt = [s \in SessionIds |-> NoPause]
    /\ epics = {"e1"}
    /\ epicMode = [e \in EpicIds |-> IF e = "e1" THEN "ready_for_build" ELSE None]
    /\ cancelled = {}
    /\ mols = {"m1"}
    /\ molProto = [m \in MolIds |-> IF m = "m1" THEN "e1" ELSE None]
    /\ sessions = [s \in SessionIds |->
                      startState(FreshState, ResumeArgs, resolveStart(ResumeArgs, TRUE))]
    /\ status = [u \in UnitIds |-> "open"]
    /\ attempts = [u \in UnitIds |-> 0]
    /\ rejections = [u \in UnitIds |-> 0]
    /\ breakerNotes = {}
    /\ unblocked = [u \in UnitIds |-> FALSE]
    /\ validated = {}
    /\ review = [s \in SessionIds |-> NoReview]
    /\ wpos = [s \in SessionIds |->
                  [pc |-> "idle", mol |-> "m1", unit |-> None, seen |-> 0]]
    /\ dirs = {}
    /\ branches = {}
    /\ pushed = {}
    /\ prs = {}
    /\ tracker = NoPath
    /\ runner = "idle"
    /\ child = "none"
    /\ sigPending = FALSE
    /\ named = NoPath
    /\ created = [s \in SessionIds |-> {}]
    /\ ended = [s \in SessionIds |-> "no"]
    /\ inflight = [s \in SessionIds |-> <<>>]
    /\ testCmd = [s \in SessionIds |-> None]
    /\ project = {}
    /\ rustCli = "down"

NextBreaker ==
    \/ \E s \in SessionIds :
        \/ WorkerPick(s)
        \/ WorkerFail(s)
        \/ WorkerBlock(s)
        \/ WorkerReject(s)
        \/ WorkerRejectCheck(s)
        \/ WorkerClose(s)
        \/ WorkerInterrupt(s)
    \/ \E u \in UnitIds : Unblock(u)

SpecBreaker == InitBreaker /\ [][NextBreaker]_vars

(***************************************************************************)
(* The lease: one session starts runs with and without a worktree while    *)
(* ralph-runner.sh supervises the host or the verify-safety.sh mock.       *)
(***************************************************************************)
\* Calls that resume molecule m1 with each worktree / pr choice and a
\* ceiling of one iteration, and a planning call that asks for a worktree.
LeaseArgs ==
    {[argsOf(None, ResumeTarget, {"triv"}, 1) EXCEPT !.worktree = w, !.pr = p] :
        w, p \in BOOLEAN}
    \cup
    {[argsOf("planning", EpicTarget, {"triv"}, 1) EXCEPT !.worktree = TRUE]}

NextLease ==
    \/ \E s \in CoreSessions :
        \/ SessionCreated(s)
        \/ SessionDeleted(s)
        \/ \E d \in BOOLEAN : MessageEvent(s, d, FALSE)
        \/ \E up, rem \in BOOLEAN : stop(s, up, rem)
        \/ \E a \in LeaseArgs, up \in BOOLEAN : RalphBeads(s, a, up)
        \/ \E a \in CancelArgs, up \in BOOLEAN : RalphCancel(s, a, up)
    \/ \E c \in {"mock", "host", "missing"} : RunnerStart(c)
    \/ MockClaude
    \/ RunnerSignal
    \/ RunnerExit
    \/ RunnerKill

SpecLease == Init /\ [][NextLease]_vars

(***************************************************************************)
(* The build loop: session s1 holds the building prompt of molecule m1,    *)
(* its worker iterates over the tasks (failing, blocking, closing), and    *)
(* the stop hook decides after each turn whether to continue.              *)
(***************************************************************************)
NextLoop ==
    \/ \E s \in CoreSessions :
        \/ WorkerPick(s)
        \/ WorkerFail(s)
        \/ WorkerBlock(s)
        \/ WorkerClose(s)
        \/ WorkerInterrupt(s)
        \/ \E up \in BOOLEAN : stop(s, up, TRUE)
    \/ \E u \in UnitIds : Unblock(u)

SpecLoop == InitBreaker /\ [][NextLoop]_vars

(***************************************************************************)
(* Session start: ralph-beads called with every combination of requested   *)
(* mode, target, task wording, complexity override and iteration ceiling.  *)
(***************************************************************************)
\* Calls without an explicit ceiling for every task wording and complexity
\* override, calls with each explicit ceiling, and calls that supply the
\* ceiling 0.
TierArgs ==
    {[argsOf(m, t, k, 0) EXCEPT !.complexity = c] :
        m \in {None, "plan", "build"},
        t \in {EpicTarget, ResumeTarget},
        k \in Tasks,
        c \in {None} \cup Tiers}
    \cup
    {[argsOf(m, t, k, n) EXCEPT !.complexity = c] :
        m \in {None, "plan", "build"},
        t \in {EpicTarget, ResumeTarget},
        k \in {{}, {"triv"}},
        c \in {None, "critical"},
        n \in MaxIterArgs \ {0}}
    \cup
    {[argsOf(m, EpicTarget, k, 0) EXCEPT !.max_iterations_set = TRUE] :
        m \in {None, "plan"}, k \in {{}, {"triv"}}}

NextStart ==
    \E s \in CoreSessions :
        \/ SessionCreated(s)
        \/ SessionDeleted(s)
        \/ \E a \in TierArgs, up \in BOOLEAN : RalphBeads(s, a, up)
        \/ \E a \in CancelArgs, up \in BOOLEAN : RalphCancel(s, a, up)

SpecStart == Init /\ [][NextStart]_vars

(***************************************************************************)
(* Validation: session s1 resumes molecule m1 for a task of any wording    *)
(* with any validate / skip_validate request, and its worker takes the     *)
(* tasks through the work protocol.                                        *)
(***************************************************************************)
ValidateArgs ==
    {[argsOf(None, ResumeTarget, k, 0) EXCEPT !.validate = v, !.skip_validate = sk] :
        k \in {{"crit"}, {"triv"}, {}}, v, sk \in BOOLEAN}

NextValidate ==
    \/ \E s \in CoreSessions :
        \/ \E a \in ValidateArgs : RalphBeads(s, a, TRUE)
        \/ WorkerPick(s)
        \/ WorkerApprove(s)
        \/ WorkerReject(s)
        \/ WorkerRejectCheck(s)
        \/ WorkerClose(s)
    \/ \E u \in UnitIds : Unblock(u)

SpecValidate == Init /\ [][NextValidate]_vars

\* The slash command's classifier (Step 5 of commands/ralph-beads.md, and
\* the copy verify-complexity.sh extracts from it): an if / elif chain that
\* tests the trivial pattern first, then the simple one, then the critical
\* one, and leaves the default "standard" otherwise.
shellComplexity(task) ==
    IF "triv" \in task THEN "trivial"
    ELSE IF "simp" \in task THEN "simple"
    ELSE IF "crit" \in task THEN "critical"
    ELSE "standard"

(***************************************************************************)
(* Cancellation: two sessions are building on molecule m1 of epic e1; each *)
(* may cancel, stop, work and resume.                                      *)
(***************************************************************************)
NextCancel ==
    \E s \in SessionIds :
        \/ \E up \in BOOLEAN : stop(s, up, TRUE)
        \/ \E a \in CancelArgs : RalphCancel(s, a, TRUE)
        \/ RalphBeads(s, ResumeArgs, TRUE)
        \/ WorkerPick(s)
        \/ WorkerClose(s)

SpecCancel == InitBreaker /\ [][NextCancel]_vars

(***************************************************************************)
(* Blind review: the worker of session s1 takes the tasks of molecule m1   *)
(* through failures, reviews with every style guide, diff and reasoning,   *)
(* verdicts and closes.                                                    *)
(***************************************************************************)
NextReview ==
    \E s \in CoreSessions :
        \/ WorkerPick(s)
        \/ WorkerFail(s)
        \/ WorkerBlock(s)
        \/ \E g \in Guides, d \in Diffs, r \in Reasonings : SpawnReviewer(s, g, d, r)
        \/ WorkerApprove(s)
        \/ WorkerReject(s)
        \/ WorkerRejectCheck(s)
        \/ WorkerClose(s)

SpecReview == InitBreaker /\ [][NextReview]_vars

(***************************************************************************)
(* Environment check: one session calls ralph-beads while `bd info` works  *)
(* or fails and the other store commands work or fail.                     *)
(***************************************************************************)
NextInfo ==
    \E s \in CoreSessions :
        \/ SessionCreated(s)
        \/ SessionDeleted(s)
        \/ \E a \in StartArgs, infoUp, up \in BOOLEAN : RalphBeadsInfo(s, a, infoUp, up)
        \/ \E a \in CancelArgs, up \in BOOLEAN : RalphCancel(s, a, up)

SpecInfo == Init /\ [][NextInfo]_vars

(***************************************************************************)
(* Two sessions of one host: each is created and deleted, receives         *)
(* messages and tool results, is started, stopped and cancelled.           *)
(***************************************************************************)
ShareArgs == {argsOf(None, MolTarget, {}, 1), argsOf("building", MolTarget, {}, 1)}

\* One hook or tool invocation for session s.
Invocation(s) ==
    \/ SessionCreated(s)
    \/ SessionDeleted(s)
    \/ MessageEvent(s, TRUE, FALSE)
    \/ \E use \in ToolUses : ToolAfter(s, use)
    \/ stop(s, TRUE, TRUE)
    \/ \E a \in ShareArgs : RalphBeads(s, a, TRUE)
    \/ \E a \in CancelArgs : RalphCancel(s, a, TRUE)

NextShare == \E s \in SessionIds : Invocation(s)

SpecShare == Init /\ [][NextShare]_vars

(***************************************************************************)
(* Molecule reference: one session is started in every mode on nothing, on *)
(* an epic, on a molecule and by resume, and is stopped and cancelled.     *)
(***************************************************************************)
MolArgs ==
    {argsOf(m, t, {"triv"}, 1) :
        m \in {None, "plan", "build", "planning"},
        t \in {NoTarget, EpicTarget, MolTarget, ResumeTarget}}

NextMol ==
    \E s \in CoreSessions :
        \/ SessionCreated(s)
        \/ MessageEvent(s, TRUE, FALSE)
        \/ \E up \in BOOLEAN : stop(s, up, TRUE)
        \/ \E a \in MolArgs, up \in BOOLEAN : RalphBeads(s, a, up)
        \/ \E a \in CancelArgs : RalphCancel(s, a, TRUE)

SpecMol == Init /\ [][NextMol]_vars

(***************************************************************************)
(* Overlapping hooks: the host delivers stop events, messages and tool     *)
(* calls of one session while earlier stop invocations of that session are *)
(* suspended at their ready query.                                         *)
(***************************************************************************)
OverlapArgs == {argsOf(None, ResumeTarget, {"triv"}, n) : n \in 1..MaxIterArg}

NextOverlap ==
    \E s \in CoreSessions :
        \/ SessionCreated(s)
        \/ \E d \in BOOLEAN : MessageEvent(s, d, FALSE)
        \/ \E up \in BOOLEAN : StopBegin(s, up, TRUE)
        \/ \E i \in 1..MaxOverlap, up \in BOOLEAN : StopResume(s, i, up)
        \/ \E a \in OverlapArgs : RalphBeads(s, a, TRUE)
        \/ WorkerPick(s)
        \/ WorkerClose(s)

SpecOverlap == Init /\ [][NextOverlap]_vars

(***************************************************************************)
(* Halting: one session is started with and without a worktree, its worker *)
(* works, messages arrive, and the host fires a stop event whenever the    *)
(* agent goes idle: after each injected prompt the agent runs and idles    *)
(* again, so a stop event that can happen does happen (weak fairness).     *)
(***************************************************************************)
NextHalt ==
    \E s \in CoreSessions :
        \/ SessionCreated(s)
        \/ \E d \in BOOLEAN : MessageEvent(s, d, FALSE)
        \/ \E up, rem \in BOOLEAN : stop(s, up, rem)
        \/ \E a \in LeaseArgs : RalphBeads(s, a, TRUE)
        \/ WorkerPick(s)
        \/ WorkerClose(s)

SpecHalt ==
    /\ Init /\ [][NextHalt]_vars
    /\ WF_vars(\E s \in CoreSessions : stop(s, TRUE, TRUE))

(***************************************************************************)
(* Framework detection: the project directory holds any of the build files *)
(* and ralph-beads-cli is missing or failing; one session is started.      *)
(***************************************************************************)
InitFramework ==
    /\ InitCore
    /\ project \in SUBSET ProjectFiles
    /\ rustCli \in {"down", "failing"}

FrameworkArgs ==
    {argsOf(m, t, {"triv"}, 1) : m \in {None, "plan"}, t \in {EpicTarget, ResumeTarget}}

NextFramework ==
    \E s \in CoreSessions :
        \/ SessionCreated(s)
        \/ \E a \in FrameworkArgs, up \in BOOLEAN : RalphBeads(s, a, up)
        \/ stop(s, TRUE, TRUE)

SpecFramework == InitFramework /\ [][NextFramework]_vars

(***************************************************************************)
(* Properties.                                                             *)
(***************************************************************************)
\* A session that ralph-beads has started
Started(s) == sessions[s].present /\ sessions[s].mode # None

\* The step is a stop hook of session s that returned (lastStop is reset by
\* every other hook and tool of the session).
StopStep(s) ==
    /\ lastStop'[s] # None
    /\ (sessions'[s] # sessions[s] \/ lastStop'[s] # lastStop[s])

\* The observed signal is the token of the session's mode
TokenMatches(st) ==
    \/ (st.mode = "planning" /\ st.promiseMade = "PLAN_READY")
    \/ (st.mode = "building" /\ st.promiseMade = "DONE")

\* The iteration budget of the session is used up
BudgetUsedUp(st) == st.maxIterations # 0 /\ st.iterationCount >= st.maxIterations

\* C1: in every state of a started session, maxIterations > 0 and
\* 0 <= iterationCount <= maxIterations.
C1_IterationBounds ==
    \A s \in SessionIds :
        Started(s) =>
            /\ sessions[s].maxIterations > 0
            /\ 0 <= sessions[s].iterationCount
            /\ sessions[s].iterationCount <= sessions[s].maxIterations

\* C2: with a positive ceiling N, a stop that continues leaves
\* iterationCount <= N, and the stop that finds the budget used up halts
\* with the mode set to paused, the pause persisted in the store, and
\* iterationCount = N.
C2_BudgetCheckpoint ==
    \A s \in SessionIds :
        LET st == sessions[s] IN
        (Started(s) /\ st.maxIterations > 0) =>
            /\ (lastStop[s] = "continue" => st.iterationCount <= st.maxIterations)
            /\ (lastStop[s] = "halt_budget" =>
                    /\ st.mode = "paused"
                    /\ st.epicId # None /\ epicMode[st.epicId] = "paused"
                    /\ st.iterationCount = st.maxIterations)

C4_CompletionSetsMode ==
    [][\A s \in SessionIds :
          LET st == sessions[s] IN
          (StopStep(s) /\ Started(s) /\ TokenMatches(st) /\ ~BudgetUsedUp(st)) =>
              /\ lastStop'[s] = "halt_complete"
              /\ st.worktreePath \notin dirs'
              /\ sessions'[s].mode =
                     IF st.mode = "planning" THEN "ready_for_build" ELSE "complete"]_vars

\* C5: once the run of a session that created a worktree has ended by a
\* completion signal, budget exhaustion, ralph-cancel, session.deleted or
\* the runner's handled exit, none of its worktrees exists.
C5_NoLeaseLeftBehind ==
    \A s \in SessionIds :
        ended[s] \in {"complete", "budget", "cancel", "deleted", "runner"} =>
            created[s] \cap dirs = {}

C7_TrackerNamesWorktree ==
    \A p \in MolPaths : p \in dirs => tracker = p

\* A worker is between logging a second record for unit u and the status
\* update that follows it.
MidRecord(u) ==
    \E s \in SessionIds :
        wpos[s].unit = u /\ wpos[s].pc \in {"blocking", "rejected"}

\* C8: a first recorded failure leaves the unit's status unchanged; a unit
\* with exactly two recorded failures is blocked; and nothing is recorded
\* on a unit that is already blocked.
C8_FailureBreaker ==
    /\ [](\A u \in UnitIds :
            (attempts[u] = 2 /\ ~unblocked[u] /\ ~MidRecord(u)) =>
                status[u] = "blocked")
    /\ [][\A u \in UnitIds :
            /\ (attempts[u] = 0 /\ attempts'[u] = 1 => status'[u] = status[u])
            /\ (status[u] = "blocked" =>
                    attempts'[u] = attempts[u] /\ rejections'[u] = rejections[u])]_vars

\* C9: a unit is blocked only with two failures or two rejections on
\* record, so one failure plus one rejection blocks nothing; and the
\* rejection check that finds two rejections blocks the unit whatever its
\* failure count.
C9_IndependentCounters ==
    /\ [](\A u \in UnitIds :
            status[u] = "blocked" => (attempts[u] >= 2 \/ rejections[u] >= 2))
    /\ [][\A s \in SessionIds :
            (WorkerRejectCheck(s) /\ rejections[wpos[s].unit] >= 2) =>
                status'[wpos[s].unit] = "blocked"]_vars

\* C9 witness: u1 was blocked by two rejections without any failure, and
\* u2 carries one failure and one rejection and is not blocked.
C9_Witness ==
    /\ status["u1"] = "blocked" /\ rejections["u1"] = 2 /\ attempts["u1"] = 0
    /\ "u1" \in breakerNotes
    /\ attempts["u2"] = 1 /\ rejections["u2"] = 1
    /\ status["u2"] = "in_progress"
    /\ \A s \in SessionIds : wpos[s].pc = "idle"

\* C10: a unit with a second failure or a second rejection on record that
\* nobody has unblocked is blocked (and so not ready), also after an
\* interruption between the record and the status update.
C10_BlockedUntilUnblocked ==
    \A u \in UnitIds :
        ((attempts[u] >= 2 \/ rejections[u] >= 2) /\ ~unblocked[u] /\ ~MidRecord(u)) =>
            status[u] = "blocked"

\* The first unit of molecule m, in the store's order, that is open or in
\* progress (None: there is none).
FirstReadyUnit(m) ==
    LET idx == {i \in 1 .. Len(UnitOrder) :
                   /\ UnitMol[UnitOrder[i]] = m
                   /\ status[UnitOrder[i]] \in {"open", "in_progress"}}
    IN IF idx = {} THEN None
       ELSE UnitOrder[CHOOSE i \in idx : \A j \in idx : i <= j]

\* C11: every continuation prompt of a building session names the first
\* unit the store's ready query returns for the session's molecule in that
\* stop invocation; a blocked unit is never named.
C11_DirectiveNamesFirstReady ==
    [][\A s \in SessionIds :
          (StopStep(s) /\ Started(s) /\ sessions[s].mode = "building"
              /\ lastStop'[s] = "continue") =>
              /\ stopLog'[s].unit # None
              /\ stopLog'[s].unit = FirstReadyUnit(sessions[s].moleculeId)
              /\ status[stopLog'[s].unit] # "blocked"]_vars

\* C11 witness: u1 is blocked and the stop hook's prompt names u2.
C11_Witness ==
    \E s \in SessionIds :
        /\ status["u1"] = "blocked"
        /\ lastStop[s] = "continue"
        /\ stopLog[s].unit = "u2"

\* C12: after a ralph-beads call without dry_run that starts a workflow,
\* the stored mode is planning when the caller asked for 'plan' and
\* building when the caller asked for 'build', gave no mode or resumed a
\* molecule; the stored mode of a session is always one of planning,
\* building, paused, complete.
C12_StartEstablishesMode ==
    /\ [](\A s \in SessionIds :
            Started(s) =>
                sessions[s].mode \in {"planning", "building", "paused", "complete"})
    /\ [][\A s \in SessionIds, a \in StartArgs, up \in BOOLEAN :
            (/\ RalphBeads(s, a, up)
             /\ ~a.dry_run
             /\ resolveStart(a, up).outcome = "ok"
             /\ (a.resume # None \/ a.mode \in {None, "plan", "build"})) =>
                sessions'[s].mode =
                    IF a.mode = "plan" /\ a.resume = None
                    THEN "planning" ELSE "building"]_vars

\* C13: a stop of a started session that is neither paused nor complete,
\* with budget left, no matching completion signal and, in building mode,
\* a ready unit returned by the store, injects exactly one continuation
\* prompt, increments iterationCount by exactly 1 and returns continue.
C13_ContinueInjectsOnePrompt ==
    [][\A s \in SessionIds :
          LET st == sessions[s] IN
          (/\ StopStep(s) /\ Started(s)
           /\ st.mode \notin {"paused", "complete"}
           /\ ~BudgetUsedUp(st) /\ ~TokenMatches(st)
           /\ (st.mode = "building" => stopLog'[s].query = "found")) =>
              /\ lastStop'[s] = "continue"
              /\ stopLog'[s].prompts = 1
              /\ sessions'[s].iterationCount = st.iterationCount + 1]_vars

\* The state of session s as every hook and tool reads it: a session
\* without an entry in the map reads as a new state.
SessionView(s) == IF sessions[s].present THEN sessions[s] ELSE FreshState

\* C14: a stop of a session whose mode is paused or complete, or that has
\* no workflow started, returns halt and changes nothing: the session
\* state reads the same, no prompt is injected, no store query is made,
\* and the store, the work units and the git state are untouched.
C14_InactiveStopChangesNothing ==
    [][\A s \in SessionIds :
          (StopStep(s) /\ SessionView(s).mode \in {None, "paused", "complete"}) =>
              /\ lastStop'[s] # "continue"
              /\ SessionView(s)' = SessionView(s)
              /\ stopLog'[s].prompts = 0
              /\ stopLog'[s].query = "none"
              /\ UNCHANGED <<storeVars, unitVars, gitVars, runnerVars, fwVars, inflight>>]_vars

\* C14 witness: a stop returned at the mode guard for a paused session
\* that has an epic and an iteration ceiling.
C14_Witness ==
    \E s \in SessionIds :
        /\ lastStop[s] = "halt_inactive"
        /\ sessions[s].present
        /\ sessions[s].mode = "paused"
        /\ sessions[s].epicId # None
        /\ sessions[s].maxIterations > 0

\* The iteration table: planning / building ceiling of each tier.
TableEntry(plan, tier) ==
    CASE tier = "trivial" -> IF plan THEN 2 ELSE 5
      [] tier = "simple" -> IF plan THEN 3 ELSE 10
      [] tier = "standard" -> IF plan THEN 5 ELSE 20
      [] tier = "critical" -> IF plan THEN 8 ELSE 40

\* C15: a session started with requested mode plan or build and without an
\* explicit max-iterations value has the table entry of that mode and of
\* the session's tier as maxIterations.
C15_TableEntryForModeAndTier ==
    \A s \in SessionIds :
        LET a == lastCall[s] IN
        (/\ Started(s) /\ a # NoCall
         /\ a.resume = None
         /\ a.mode \in {"plan", "build"}
         /\ ~a.max_iterations_set) =>
            /\ sessions[s].complexity \in Tiers
            /\ sessions[s].maxIterations =
                   TableEntry(a.mode = "plan", sessions[s].complexity)

\* C16: in a session of tier critical no unit of the session's molecule is
\* closed without an approving validation, whatever validate /
\* skip_validate request the session was started with.
C16_CriticalAlwaysValidated ==
    \A s \in SessionIds, u \in UnitIds :
        (/\ Started(s)
         /\ sessions[s].complexity = "critical"
         /\ UnitMol[u] = sessions[s].moleculeId
         /\ wpos[s].mol = sessions[s].moleculeId
         /\ status[u] = "closed") =>
            u \in validated

\* The tier a description is to get from the patterns it matches.
PatternTier(task) ==
    CASE "crit" \in task -> "critical"
      [] "crit" \notin task /\ "triv" \in task -> "trivial"
      [] "crit" \notin task /\ "triv" \notin task /\ "simp" \in task -> "simple"
      [] OTHER -> "standard"

\* C17: a description matching a critical pattern classifies critical even
\* when it also matches a trivial or simple pattern; without a critical
\* match, trivial wins over simple and simple over standard.  Stated for the
\* tier a session started without an override stores, and for the slash
\* command's classifier on the same description.
C17_CriticalPatternWins ==
    \A s \in SessionIds :
        (Started(s) /\ lastCall[s] # NoCall /\ lastCall[s].complexity = None) =>
            /\ sessions[s].complexity = PatternTier(lastCall[s].task)
            /\ shellComplexity(lastCall[s].task) = PatternTier(lastCall[s].task)

\* C18: when the caller supplies a complexity the session's tier is the
\* supplied value, whatever the task description matches.
C18_OverrideWins ==
    \A s \in SessionIds :
        (Started(s) /\ lastCall[s] # NoCall /\ lastCall[s].complexity # None) =>
            sessions[s].complexity = lastCall[s].complexity

\* C18 witness: a session started for a description matching the critical
\* pattern with an override to a lower tier.
C18_Witness ==
    \E s \in SessionIds :
        /\ Started(s)
        /\ lastCall[s] # NoCall
        /\ lastCall[s].complexity \in {"trivial", "simple"}
        /\ "crit" \in lastCall[s].task
        /\ sessions[s].complexity = lastCall[s].complexity

\* C19: when the caller supplies a max-iterations value n the session's
\* maxIterations is n whatever the mode and the tier; the table value is
\* used only when no value was supplied.
C19_ExplicitCeilingWins ==
    \A s \in SessionIds :
        (Started(s) /\ lastCall[s] # NoCall /\ lastCall[s].max_iterations_set) =>
            sessions[s].maxIterations = lastCall[s].max_iterations

\* C20: a ralph-beads call with resume or mol that takes a session back to
\* the epic it paused with ralph-cancel continues from the iterationCount
\* and the complexity tier the session had when it was paused, and changes
\* no work unit's status.
C20_ResumePreservesProgress ==
    [][\A s \in SessionIds :
          (/\ pausedAt[s] # NoPause
           /\ lastCall'[s] # lastCall[s]
           /\ lastCall'[s] # NoCall
           /\ (lastCall'[s].resume # None \/ lastCall'[s].mol # None)
           /\ sessions'[s].epicId = pausedAt[s].epicId) =>
              /\ sessions'[s].iterationCount = pausedAt[s].iterationCount
              /\ sessions'[s].complexity = pausedAt[s].complexity
              /\ status' = status]_vars

\* C21: a successful ralph-cancel sets the epic's mode to paused in the store
\* and adds the [CANCELLED] comment, and changes nothing else there: the
\* epic stays, no molecule and no work unit changes, and nothing is pushed
\* and no pull request is created.
C21_CancelOnlyPauses ==
    [][\A s \in SessionIds, a \in CancelArgs :
          LET e == cancelTarget(getState(s), a) IN
          (RalphCancel(s, a, TRUE) /\ e \in epics) =>
              /\ epicMode' = [epicMode EXCEPT ![e] = "paused"]
              /\ cancelled' = cancelled \cup {e}
              /\ epics' = epics
              /\ mols' = mols
              /\ molProto' = molProto
              /\ unitVars' = unitVars
              /\ gitVars' = gitVars]_vars

\* C21 witness: an epic paused by ralph-cancel while a unit of one of its
\* molecules is still in_progress and nothing has been pushed.
C21_Witness ==
    \E e \in cancelled, u \in UnitIds :
        /\ epicMode[e] = "paused"
        /\ UnitMol[u] \in mols
        /\ molProto[UnitMol[u]] = e
        /\ status[u] = "in_progress"
        /\ pushed = {}
        /\ prs = {}

\* C22: once ralph-cancel has succeeded for an epic, and until ralph-beads
\* is invoked again, every stop hook of every session working on that epic
\* returns without issuing a continue directive.
C22_CancelStopsTheLoop ==
    [][\A s \in SessionIds, c \in SessionIds :
          (/\ pausedAt[c] # NoPause
           /\ StopStep(s)
           /\ getState(s).epicId = pausedAt[c].epicId) =>
              lastStop'[s] # "continue"]_vars

\* Some unit of molecule m is not closed: progress is below 100%.
Unfinished(m) == \E u \in UnitIds : UnitMol[u] = m /\ status[u] # "closed"

\* C23: a building-mode stop whose ready query fails, or returns no unit
\* while progress is below 100%, returns halt without incrementing
\* iterationCount and with a diagnostic: a prompt to the session, or at
\* least the error parseJson writes to the console when the query fails.
C23_StoreTroubleHaltsWithDiagnostic ==
    [][\A s \in SessionIds :
          (/\ StopStep(s)
           /\ Started(s)
           /\ \/ stopLog'[s].query = "failed"
              \/ stopLog'[s].query = "empty" /\ Unfinished(sessions[s].moleculeId)) =>
              /\ lastStop'[s] \notin {"continue"}
              /\ sessions'[s].iterationCount = sessions[s].iterationCount
              /\ (stopLog'[s].prompts > 0 \/ stopLog'[s].query = "failed")]_vars

\* C24: a ralph-beads call that asks for a worktree whose path already
\* exists fails: no prompt reaches the worker, the existing worktree and its
\* branch are left as they are, and the call records no lease in the
\* session (a session without a lease still has none).
C24_LeaseConflictIsFatal ==
    [][\A s \in SessionIds, a \in LeaseArgs, up \in BOOLEAN :
          LET r == resolveStart(a, up) IN
          (/\ r.outcome = "ok" /\ ~a.dry_run
           /\ (a.worktree \/ a.pr)
           /\ r.mode = "building" /\ r.molId # None
           /\ WorktreePathOf(r.molId) \in dirs
           /\ RalphBeads(s, a, up)) =>
              /\ dirs' = dirs
              /\ branches' = branches
              /\ created' = created
              /\ wpos' = wpos
              /\ sessions'[s].worktreePath = getState(s).worktreePath
              /\ sessions'[s].branchName = getState(s).branchName
              /\ sessions'[s].createPr = getState(s).createPr]_vars

\* C24 witness: a session whose resume call asked for a worktree holds no
\* lease although the molecule's worktree exists: the call met the conflict.
C24_Witness ==
    \E s \in SessionIds :
        /\ Started(s)
        /\ lastCall[s] # NoCall
        /\ lastCall[s].resume # None
        /\ (lastCall[s].worktree \/ lastCall[s].pr)
        /\ sessions[s].worktreePath = NoPath
        /\ WorktreePathOf(sessions[s].moleculeId) \in dirs

\* C25: a tracker record that names a worktree which still exists is never
\* deleted or replaced by a later writer: as long as the worktree stays, the
\* record stays.
C25_TrackerRecordNeverClobbered ==
    [][(tracker # NoPath /\ tracker \in dirs /\ tracker \in dirs') =>
           tracker' = tracker]_vars

\* C26: a completing stop of a session that holds a worktree removes the
\* worktree in every case, whether or not the push, the epic lookup or the
\* pull-request creation succeeded; a pull request is only created for a
\* branch pushed by then.
C26_FinalizationNeverBlocksRemoval ==
    [][\A s \in SessionIds :
          LET st == sessions[s] IN
          (/\ StopStep(s) /\ Started(s)
           /\ TokenMatches(st) /\ ~BudgetUsedUp(st)
           /\ st.worktreePath # NoPath) =>
              /\ st.worktreePath \notin dirs'
              /\ stopLog'[s].prompts = 1
              /\ (prs' # prs => st.branchName \in pushed')]_vars

\* C26 witness: a session that asked for a pull request completed while the
\* remote was unreachable: nothing was pushed, and its worktree is gone.
C26_Witness ==
    \E s \in SessionIds :
        /\ lastStop[s] = "halt_complete"
        /\ sessions[s].createPr
        /\ sessions[s].worktreePath # NoPath
        /\ sessions[s].worktreePath \in created[s]
        /\ sessions[s].worktreePath \notin dirs
        /\ sessions[s].branchName \notin pushed
        /\ prs = {}

\* C27: releasing a released lease changes nothing: a further stop of a
\* session whose last stop completed and released its worktree pushes
\* nothing, creates no pull request, sends no cleanup notice and leaves the
\* session and the worktrees as they are; and the runner's cleanup run a
\* second time leaves what the first run left.
C27_ReleaseIdempotent ==
    /\ [](LET fs == [tracker |-> tracker, dirs |-> dirs] IN
          cleanup(cleanup(fs)) = cleanup(fs))
    /\ [][\A s \in SessionIds :
            (/\ lastStop[s] = "halt_complete"
             /\ sessions[s].worktreePath # NoPath
             /\ \E up, rem \in BOOLEAN : stop(s, up, rem)) =>
                /\ gitVars' = gitVars
                /\ sessions' = sessions
                /\ stopLog'[s].prompts = 0]_vars

HiddenInputsDoNotReach(rv) ==
    \A r \in Reasonings, c \in 0 .. (2 * MaxRecords), e \in EpicIds \cup {None} :
        reviewerPrompt([rv.ctx EXCEPT !.reasoning = r, !.comments = c, !.plan = e])
            = rv.input

C30_DryRunHasNoSideEffects ==
    [][\A s \in SessionIds, a \in StartArgs, up \in BOOLEAN :
          (a.dry_run /\ RalphBeads(s, a, up)) =>
              /\ epics' = epics
              /\ mols' = mols
              /\ molProto' = molProto
              /\ epicMode' = epicMode
              /\ dirs' = dirs
              /\ branches' = branches
              /\ sessions' = sessions]_vars

\* C31: a ralph-beads call whose `bd info` check fails stops at the check:
\* it creates no epic, sets no epic state, pours no molecule and leaves the
\* session state unchanged.
C31_InfoFailureStopsTheCall ==
    [][\A s \in SessionIds, a \in StartArgs, up \in BOOLEAN :
          RalphBeadsInfo(s, a, FALSE, up) =>
              /\ epics' = epics
              /\ epicMode' = epicMode
              /\ mols' = mols
              /\ molProto' = molProto
              /\ sessions' = sessions]_vars

\* C32: sessions share no mutable state: a hook or tool invocation for one
\* session leaves the stored state of every other session as it was, the
\* list of modified files included.
C32_SessionsShareNoState ==
    [][\A a \in SessionIds :
          Invocation(a) =>
              \A b \in SessionIds \ {a} : sessions'[b] = sessions[b]]_vars

\* Both sessions hold state, s1 has recorded a modified file and a commit and
\* runs a loop, s2 has recorded neither.
C32_Witness ==
    /\ sessions["s1"].present /\ sessions["s2"].present
    /\ sessions["s1"].filesModified = <<"f1">> /\ sessions["s1"].commitMade
    /\ sessions["s1"].mode = "building"
    /\ sessions["s2"].filesModified = <<>> /\ ~sessions["s2"].commitMade
    /\ sessions["s2"].mode = None

\* C33: the stored state of a session is discarded by an explicit
\* cancellation and by a normal completion: once a stop has halted on the
\* completion signal (finalization done), and once ralph-cancel has paused
\* the session's epic, the session map holds no entry for the session.
C33_StateDiscardedAtEnd ==
    [][\A s \in SessionIds :
          (\/ StopStep(s) /\ lastStop'[s] = "halt_complete"
           \/ pausedAt[s] = NoPause /\ pausedAt'[s] # NoPause) =>
              ~sessions'[s].present]_vars

\* C34: the molecule reference is set only once building begins: a session
\* in planning mode (asked to plan) has no moleculeId, and a session that
\* has a moleculeId is in building mode.
C34_MoleculeOnlyWhileBuilding ==
    \A s \in SessionIds :
        Started(s) =>
            /\ sessions[s].mode \in {"plan", "planning"} =>
                   sessions[s].moleculeId = None
            /\ sessions[s].moleculeId # None => sessions[s].mode = "building"

\* C35: a lease is recorded only while isolated execution is active: a
\* session's worktreePath and branchName are set only if that worktree
\* exists and is the one of the session's current molecule.
C35_LeaseRecordedOnlyWhileHeld ==
    \A s \in SessionIds :
        LET st == sessions[s] IN
        (st.present /\ (st.worktreePath # NoPath \/ st.branchName # NoPath)) =>
            /\ st.moleculeId # None
            /\ st.worktreePath = WorktreePathOf(st.moleculeId)
            /\ st.branchName = BranchNameOf(st.moleculeId)
            /\ st.worktreePath \in dirs

\* C36: overlapping hook invocations of one session act like some
\* sequential order of them; in particular the iteration count of a started
\* session never exceeds its positive ceiling.
C36_OverlapIsSerializable ==
    \A s \in SessionIds :
        (Started(s) /\ sessions[s].maxIterations > 0) =>
            sessions[s].iterationCount <= sessions[s].maxIterations

\* A stop hook injects a prompt into session s (a continuation directive or
\* the worktree cleanup notice).
PromptStep(s) == StopStep(s) /\ stopLog'[s].prompts > 0

\* The session is started (again) by a ralph-beads call.
StartStep == \E s \in CoreSessions, a \in LeaseArgs : RalphBeads(s, a, TRUE)

\* C37: every started session eventually halts: unless ralph-beads is called
\* again and again, from some point on no stop hook injects a prompt any
\* more, whatever the worker outputs and the store returns.
C37_FinitelyManyPrompts ==
    \/ []<><<StartStep>>_vars
    \/ <>[][\A s \in SessionIds : ~PromptStep(s)]_vars

\* C38: a failed start does not activate the session: after a ralph-beads
\* call that ends with an ERROR result or an exception, the session's mode,
\* maxIterations, iterationCount and lease fields are as they were before.
C38_FailedStartDoesNotActivate ==
    [][\A s \in SessionIds, a \in LeaseArgs, up \in BOOLEAN :
          (startFails(a, up) /\ RalphBeads(s, a, up) /\ sessions'[s].present) =>
              LET before == getState(s)
                  after == sessions'[s]
              IN
              /\ after.mode = before.mode
              /\ after.maxIterations = before.maxIterations
              /\ after.iterationCount = before.iterationCount
              /\ after.worktreePath = before.worktreePath
              /\ after.branchName = before.branchName
              /\ after.createPr = before.createPr]_vars

\* C39: with ralph-beads-cli unavailable the test framework is still found
\* from the project's build files: the building prompt carries the test
\* command of the first of Cargo.toml, package.json, pyproject.toml or
\* setup.py that is present.
C39_FallbackDetectsFramework ==
    \A s \in SessionIds :
        (rustCli = "down" /\ project # {} /\ testCmd[s] # None) =>
            testCmd[s] = fileChecks(project).test_command

\* C40: the two implementations of the classifier agree: the tier the
\* TypeScript fallback gives a session started without an override is the
\* tier the slash command's shell classifier gives the same description.
C40_ClassifiersAgree ==
    \A s \in SessionIds :
        (Started(s) /\ lastCall[s] # NoCall /\ lastCall[s].complexity = None) =>
            /\ sessions[s].complexity = detectComplexity(lastCall[s].task)
            /\ detectComplexity(lastCall[s].task) = shellComplexity(lastCall[s].task)

====
